---- MODULE Spec2Model ----
(***************************************************************************)
(* CacheMunk: the cache returned by configureCache (server/src/cache/      *)
(* cache.ts), driven by concurrent set / get / invalidate calls against    *)
(* one Redis key space through one ioredis client.                         *)
(*                                                                         *)
(* Time is counted in tenths of a second, so that a JavaScript number such *)
(* as 0.5 can be passed as ttlInSeconds: 5 stands for 0.5 s, 10 for 1 s.   *)
(* A string is a sequence of UTF-16 code units, a stored value a sequence  *)
(* of bytes.                                                               *)
(***************************************************************************)
EXTENDS Integers, Sequences, FiniteSets, TLC

(***************************************************************************)
(* Bounds of the model.                                                    *)
(***************************************************************************)
\* the longest whole-second TTL a caller passes
MaxTtl == 2
\* the number of invalidate calls that can be in flight at once
MaxTasks == 1

Tasks == 1..MaxTasks

\* the dependency names callers use
Dependencies == {"a", "b"}

\* the dependency lists callers pass to set (none, one name, several names)
DependencyLists == {<< >>, <<"a">>, <<"b">>, <<"a", "b">>}

\* ttlInSeconds as passed by callers: 0.5 and the whole seconds 1..MaxTtl
TtlArgs == {5} \cup {10 * n : n \in 1..MaxTtl}

\* the payloads callers pass: "p", and a string holding the unpaired
\* surrogate U+D800 (a valid JavaScript string that is not valid Unicode text)
Payloads == {<<"p">>, <<"D800">>}

\* the options passed to configureCache (maxEntrySize 0: option not given)
Options == {[compression |-> FALSE, maxEntrySize |-> 2],
            [compression |-> TRUE, maxEntrySize |-> 2],
            [compression |-> TRUE, maxEntrySize |-> 0]}

(***************************************************************************)
(* Keys.                                                                   *)
(***************************************************************************)
\* const dependencyKey = `dependency:${dependency}`
DependencyKey(dependency) == "dependency:" \o dependency

\* the cache keys callers use; nothing keeps a caller from a key that has
\* the form of a dependency key
QueryKeys == {"k1", "dependency:a"}

\* every key of the backend the calls can touch
BackendKeys == QueryKeys \cup {DependencyKey(d) : d \in Dependencies}

(***************************************************************************)
(* The value codec.                                                        *)
(***************************************************************************)
\* Buffer.from(data), and the client's encoding of a string argument: UTF-8,
\* in which an unpaired surrogate is written as U+FFFD (EF BF BD)
RECURSIVE Utf8Encode(_)
Utf8Encode(data) ==
    IF data = << >> THEN << >>
    ELSE (IF Head(data) = "D800" THEN <<"EF", "BF", "BD">> ELSE <<Head(data)>>)
         \o Utf8Encode(Tail(data))

\* binaryData.toString(), and the client's decoding of a string reply
RECURSIVE Utf8Decode(_)
Utf8Decode(bytes) ==
    IF bytes = << >> THEN << >>
    ELSE IF Len(bytes) >= 3 /\ SubSeq(bytes, 1, 3) = <<"EF", "BF", "BD">>
         THEN <<"FFFD">> \o Utf8Decode(SubSeq(bytes, 4, Len(bytes)))
         ELSE <<Head(bytes)>> \o Utf8Decode(Tail(bytes))

\* snappy's compress: a lossless transform, here a header before the input
Compress(binaryData) == <<"snappy">> \o binaryData

\* snappy's uncompress, the inverse of compress
Uncompress(buffer) == Tail(buffer)

\* options.maxEntrySize && options.maxEntrySize > 0 ? options.maxEntrySize : 5_000_000
DefaultMaxEntrySize == 5000000
MaxEntrySizeOf(option) == IF option > 0 THEN option ELSE DefaultMaxEntrySize

(***************************************************************************)
(* The backend: Redis keys, and the commands the cache sends.              *)
(***************************************************************************)
\* the remaining time to live of a key that has no expiry
Persist == -1

NoKey == [type |-> "none", val |-> << >>, members |-> {}, ttl |-> 0]
StringEntry(val, ttl) == [type |-> "string", val |-> val, members |-> {}, ttl |-> ttl]
SetEntry(members, ttl) == [type |-> "set", val |-> << >>, members |-> members, ttl |-> ttl]

\* the replies with which the backend rejects a command
WrongType == "WRONGTYPE Operation against a key holding the wrong kind of value"
NotAnInteger == "ERR value is not an integer or out of range"
InvalidExpire == "ERR invalid expire time in 'set' command"
ErrorReplies == {WrongType, NotAnInteger, InvalidExpire}
IsError(reply) == reply \in ErrorReplies

\* whether a number of tenths of a second is a whole number of seconds
IsInteger(ttl) == ttl % 10 = 0

\* SET key value EX ttl
CmdSet(key, val, ttl) == [op |-> "SET", key |-> key, val |-> val, member |-> "", ttl |-> ttl]
\* SADD key member
CmdSadd(key, member) == [op |-> "SADD", key |-> key, val |-> << >>, member |-> member, ttl |-> 0]
\* EXPIRE key ttl
CmdExpire(key, ttl) == [op |-> "EXPIRE", key |-> key, val |-> << >>, member |-> "", ttl |-> ttl]
\* DEL key
CmdDel(key) == [op |-> "DEL", key |-> key, val |-> << >>, member |-> "", ttl |-> 0]

\* the backend's execution of one command on key space s
Apply(s, c) ==
    CASE c.op = "SET" ->
           IF ~IsInteger(c.ttl) THEN [store |-> s, reply |-> NotAnInteger]
           ELSE IF c.ttl <= 0 THEN [store |-> s, reply |-> InvalidExpire]
           ELSE [store |-> [s EXCEPT ![c.key] = StringEntry(c.val, c.ttl)], reply |-> "OK"]
      [] c.op = "SADD" ->
           IF s[c.key].type = "string" THEN [store |-> s, reply |-> WrongType]
           ELSE IF s[c.key].type = "none"
           THEN [store |-> [s EXCEPT ![c.key] = SetEntry({c.member}, Persist)], reply |-> "1"]
           ELSE [store |-> [s EXCEPT ![c.key].members = @ \cup {c.member}],
                 reply |-> IF c.member \in s[c.key].members THEN "0" ELSE "1"]
      [] c.op = "EXPIRE" ->
           IF ~IsInteger(c.ttl) THEN [store |-> s, reply |-> NotAnInteger]
           ELSE IF s[c.key].type = "none" THEN [store |-> s, reply |-> "0"]
           ELSE IF c.ttl <= 0 THEN [store |-> [s EXCEPT ![c.key] = NoKey], reply |-> "1"]
           ELSE [store |-> [s EXCEPT ![c.key].ttl = c.ttl], reply |-> "1"]
      [] c.op = "DEL" ->
           [store |-> [s EXCEPT ![c.key] = NoKey],
            reply |-> IF s[c.key].type = "none" THEN "0" ELSE "1"]

\* MULTI ... EXEC: the queued commands run in order with no other client's
\* command between them; a command the backend rejects leaves its error in
\* the replies and the others are carried out all the same
RECURSIVE Exec(_, _)
Exec(s, batch) ==
    IF batch = << >> THEN [store |-> s, replies |-> << >>]
    ELSE LET first == Apply(s, Head(batch))
             rest == Exec(first.store, Tail(batch))
         IN [store |-> rest.store, replies |-> <<first.reply>> \o rest.replies]

\* the elements of a finite set in some order (SMEMBERS gives no order)
RECURSIVE SeqOf(_)
SeqOf(S) == IF S = {} THEN << >>
            ELSE LET x == CHOOSE y \in S : TRUE IN <<x>> \o SeqOf(S \ {x})

(***************************************************************************)
(* State.                                                                  *)
(***************************************************************************)
VARIABLES
    compression,    \* Config.compression, fixed by configureCache
    maxEntrySize,   \* the entry size limit configureCache derives
    store,          \* the backend's key space
    inv,            \* the invalidate calls in flight
    written         \* history: the cache keys some set has written so far

vars == <<compression, maxEntrySize, store, inv, written>>
config == <<compression, maxEntrySize>>

Idle == [pc |-> "idle", dependency |-> "a", queriesToInvalidate |-> {}]

\* what a call gives its caller
Done == [status |-> "done", value |-> << >>]
Miss == [status |-> "miss", value |-> << >>]
Hit(data) == [status |-> "hit", value |-> data]
Thrown(error) == [status |-> "thrown", value |-> <<error>>]

Init ==
    /\ \E options \in Options :
          /\ compression = (options.compression = TRUE)
          /\ maxEntrySize = MaxEntrySizeOf(options.maxEntrySize)
    /\ store = [k \in BackendKeys |-> NoKey]
    /\ inv = [t \in Tasks |-> Idle]
    /\ written = {}

(***************************************************************************)
(* set                                                                     *)
(***************************************************************************)
\* the value set stores for data
Encode(data) == IF compression THEN Compress(Utf8Encode(data)) ELSE Utf8Encode(data)

Names(dependencies) == {dependencies[i] : i \in 1..Len(dependencies)}

\* dependencies tracked by adding the key to each record and no more
TrackDependenciesWithoutExpire(queryKey, dependencies, ttlInSeconds) ==
    [i \in 1..Len(dependencies) |-> CmdSadd(DependencyKey(dependencies[i]), queryKey)]

\* the transaction set queues when dependencies are given
RECURSIVE TrackDependencies(_, _, _)
TrackDependencies(queryKey, dependencies, ttlInSeconds) ==
    IF dependencies = << >> THEN << >>
    ELSE <<CmdSadd(DependencyKey(Head(dependencies)), queryKey),
           CmdExpire(DependencyKey(Head(dependencies)), ttlInSeconds)>>
         \o TrackDependencies(queryKey, Tail(dependencies), ttlInSeconds)

SetPipeline(queryKey, data, dependencies, ttlInSeconds) ==
    <<CmdSet(queryKey, Encode(data), ttlInSeconds)>>
    \o TrackDependencies(queryKey, dependencies, ttlInSeconds)

\* a set that never compares the payload with the limit
EntryTooLargeUnchecked(data) == FALSE

\* whether set throws before it reaches the backend
EntryTooLarge(data) == compression /\ Len(Utf8Encode(data)) > maxEntrySize

\* set on key space s: what the backend holds afterwards, the backend's
\* replies to the commands sent, and what set gives its caller. The promise
\* of exec() resolves with the replies, errors among them, and set does not
\* read them; the promise of a single command rejects with its error.
SetResult(s, queryKey, data, dependencies, ttlInSeconds) ==
    IF EntryTooLarge(data)
    THEN [store |-> s, replies |-> << >>, ret |-> Thrown("maxEntrySize exceeded")]
    ELSE IF Len(dependencies) > 0
    THEN LET r == Exec(s, SetPipeline(queryKey, data, dependencies, ttlInSeconds))
         IN [store |-> r.store, replies |-> r.replies, ret |-> Done]
    ELSE LET r == Apply(s, CmdSet(queryKey, Encode(data), ttlInSeconds))
         IN [store |-> r.store, replies |-> <<r.reply>>,
             ret |-> IF IsError(r.reply) THEN Thrown(r.reply) ELSE Done]

\* whether the backend accepted the write of the primary entry
PrimaryWritten(r) == r.replies # << >> /\ ~IsError(r.replies[1])

set(queryKey, data, dependencies, ttlInSeconds) ==
    LET r == SetResult(store, queryKey, data, dependencies, ttlInSeconds)
    IN /\ store' = r.store
       /\ written' = IF PrimaryWritten(r) THEN written \cup {queryKey} ELSE written
       /\ UNCHANGED <<config, inv>>

(***************************************************************************)
(* get                                                                     *)
(***************************************************************************)
\* what get(queryKey) gives its caller on key space s
GetResult(s, queryKey) ==
    IF s[queryKey].type = "set" THEN Thrown(WrongType)
    ELSE IF s[queryKey].type = "none" THEN Miss
    ELSE IF compression THEN Hit(Utf8Decode(Uncompress(s[queryKey].val)))
    ELSE Hit(Utf8Decode(s[queryKey].val))

\* get sends one read; it changes nothing, its caller gets GetResult(store, queryKey)
get(queryKey) ==
    /\ GetResult(store, queryKey).status \in {"hit", "miss", "thrown"}
    /\ UNCHANGED vars

(***************************************************************************)
(* invalidate                                                              *)
(***************************************************************************)
\* what the first request of invalidate, SMEMBERS, gives on key space s
MembersResult(s, dependencyKey) ==
    IF s[dependencyKey].type = "string" THEN Thrown(WrongType)
    ELSE [status |-> "done", value |-> s[dependencyKey].members]

\* await redis.smembers(dependencyKey): the call ends here when it throws
InvalidateRead(t, dependency) ==
    LET r == MembersResult(store, DependencyKey(dependency))
    IN /\ inv[t].pc = "idle"
       /\ inv' = IF r.status = "thrown" THEN inv
                 ELSE [inv EXCEPT ![t] =
                         [pc |-> "delete", dependency |-> dependency,
                          queriesToInvalidate |-> r.value]]
       /\ UNCHANGED <<config, store, written>>

\* a transaction that deletes the keys read and leaves the record in place
InvalidatePipelineKeepingRecord(dependencyKey, queriesToInvalidate) ==
    [i \in 1..Len(queriesToInvalidate) |-> CmdDel(queriesToInvalidate[i])]

\* the transaction invalidate queues when the record held keys
InvalidatePipeline(dependencyKey, queriesToInvalidate) ==
    [i \in 1..Len(queriesToInvalidate) |-> CmdDel(queriesToInvalidate[i])]
    \o <<CmdDel(dependencyKey)>>

\* a second request that deletes the record and none of the keys read
InvalidateResultRecordOnly(s, dependencyKey, queriesToInvalidate) ==
    Apply(s, CmdDel(dependencyKey)).store

\* what the backend holds after invalidate's second request
InvalidateResult(s, dependencyKey, queriesToInvalidate) ==
    IF Len(queriesToInvalidate) > 0
    THEN Exec(s, InvalidatePipeline(dependencyKey, queriesToInvalidate)).store
    ELSE Apply(s, CmdDel(dependencyKey)).store

InvalidateDelete(t) ==
    /\ inv[t].pc = "delete"
    /\ store' = InvalidateResult(store, DependencyKey(inv[t].dependency),
                                 SeqOf(inv[t].queriesToInvalidate))
    /\ inv' = [inv EXCEPT ![t] = Idle]
    /\ UNCHANGED <<config, written>>

(***************************************************************************)
(* The backend's clock.                                                    *)
(***************************************************************************)
\* a key's entry one second later
Aged(entry) ==
    IF entry.ttl = Persist \/ entry.type = "none" THEN entry
    ELSE IF entry.ttl <= 10 THEN NoKey
    ELSE [entry EXCEPT !.ttl = @ - 10]

\* the key space one second later
StoreLater(s) == [k \in BackendKeys |-> Aged(s[k])]

\* the key space n seconds later
RECURSIVE After(_, _)
After(s, n) == IF n = 0 THEN s ELSE After(StoreLater(s), n - 1)

\* one second passes: every expiry comes a second nearer, reached ones remove their key
Tick ==
    /\ \E k \in BackendKeys : store[k].ttl > 0
    /\ store' = StoreLater(store)
    /\ UNCHANGED <<config, inv, written>>

Next ==
    \/ \E queryKey \in QueryKeys, data \in Payloads,
          dependencies \in DependencyLists, ttlInSeconds \in TtlArgs :
          set(queryKey, data, dependencies, ttlInSeconds)
    \/ \E queryKey \in QueryKeys : get(queryKey)
    \/ \E t \in Tasks, dependency \in Dependencies : InvalidateRead(t, dependency)
    \/ \E t \in Tasks : InvalidateDelete(t)
    \/ Tick

Spec == Init /\ [][Next]_vars

(***************************************************************************)
(* Vocabulary of the properties.                                           *)
(***************************************************************************)
\* the keys listed in the dependency record of `dependency` on key space s
Members(s, dependency) ==
    IF s[DependencyKey(dependency)].type = "set"
    THEN s[DependencyKey(dependency)].members ELSE {}

\* invalidate(dependency) run from its first request to its last with no
\* other call in between: the key space afterwards and what the caller gets
Invalidate(s, dependency) ==
    LET m == MembersResult(s, DependencyKey(dependency))
    IN IF m.status = "thrown" THEN [store |-> s, ret |-> m]
       ELSE [store |-> InvalidateResult(s, DependencyKey(dependency), SeqOf(m.value)),
             ret |-> Done]

\* whether one of the backend's replies is an error
SomeError(replies) == \E i \in 1..Len(replies) : IsError(replies[i])

\* whether a time to live a is at least a time to live b
AtLeast(a, b) == a = Persist \/ (b # Persist /\ a >= b)

\* the whole seconds among TtlArgs
WholeTtls == {ttl \in TtlArgs : IsInteger(ttl)}

(***************************************************************************)
(* C1: a set with dependencies is observed atomically. After every such   *)
(* set, if the backend accepted the primary entry then the key is a member *)
(* of every record the set named, and if it did not then the set has added *)
(* the key to none of them.                                                *)
(***************************************************************************)
C1_SetObservedAtomically ==
    [][\A queryKey \in QueryKeys, data \in Payloads,
          dependencies \in DependencyLists \ {<< >>}, ttlInSeconds \in TtlArgs :
          set(queryKey, data, dependencies, ttlInSeconds) =>
             LET r == SetResult(store, queryKey, data, dependencies, ttlInSeconds)
             IN \A d \in Names(dependencies) :
                   /\ PrimaryWritten(r) => queryKey \in Members(store', d)
                   /\ ~PrimaryWritten(r) =>
                         ~(queryKey \notin Members(store, d) /\ queryKey \in Members(store', d))
      ]_vars

(***************************************************************************)
(* C2: a key registered under a dependency is deleted by a later           *)
(* invalidate of it. Take an invalidate(d) that has read the record and    *)
(* not yet sent its deletions. A set(k, data, [d], ttl) commits now, then  *)
(* the deletions of the invalidate in flight are applied. If k is still    *)
(* live (its record has not expired: no time has passed), an invalidate(d) *)
(* started now and run to completion leaves k absent.                      *)
(***************************************************************************)
C2_RegisteredKeyDeletable ==
    \A t \in Tasks : inv[t].pc = "delete" =>
       \A k \in QueryKeys, data \in Payloads, ttlInSeconds \in WholeTtls :
          LET d == inv[t].dependency
              r == SetResult(store, k, data, <<d>>, ttlInSeconds)
              s2 == InvalidateResult(r.store, DependencyKey(d),
                                     SeqOf(inv[t].queriesToInvalidate))
              m == MembersResult(s2, DependencyKey(d))
              s3 == InvalidateResult(s2, DependencyKey(d), SeqOf(m.value))
          IN (r.ret = Done /\ PrimaryWritten(r) /\ s2[k].type = "string"
              /\ m.status = "done") => s3[k] = NoKey

(***************************************************************************)
(* C3: the time to live of every dependency record is at least that of     *)
(* every live cache entry listed in it.                                    *)
(***************************************************************************)
C3_RecordOutlivesEntries ==
    \A d \in Dependencies : \A k \in Members(store, d) :
        store[k].type = "string" => AtLeast(store[DependencyKey(d)].ttl, store[k].ttl)

(***************************************************************************)
(* C4: on every key space the program reaches, for every key, payload,     *)
(* dependency name and ttl: when set(key, payload, [name], ttl) completes  *)
(* and then, fewer than ttl seconds later, invalidate(name) completes,     *)
(* get(key) returns the miss value and the backend holds no record         *)
(* dependency:<name>.                                                      *)
(***************************************************************************)
C4_InvalidateAfterSet ==
    \A queryKey \in QueryKeys, data \in Payloads, name \in Dependencies,
       ttlInSeconds \in TtlArgs, wait \in 0..MaxTtl :
       LET r == SetResult(store, queryKey, data, <<name>>, ttlInSeconds)
           s1 == After(r.store, wait)
           m == MembersResult(s1, DependencyKey(name))
           s2 == InvalidateResult(s1, DependencyKey(name), SeqOf(m.value))
       IN (r.ret = Done /\ 10 * wait < ttlInSeconds /\ m.status = "done") =>
             /\ GetResult(s2, queryKey) = Miss
             /\ s2[DependencyKey(name)] = NoKey

\* C4's case: the key is live and registered under other keys' record when
\* set writes it again; a second passes; invalidate reads it among several
\* keys and deletes them
C4_Witness ==
    \E queryKey \in QueryKeys, data \in Payloads, name \in Dependencies,
       ttlInSeconds \in TtlArgs :
       LET r == SetResult(store, queryKey, data, <<name>>, ttlInSeconds)
           s1 == After(r.store, 1)
           m == MembersResult(s1, DependencyKey(name))
           s2 == InvalidateResult(s1, DependencyKey(name), SeqOf(m.value))
       IN /\ store[queryKey].type = "string"
          /\ r.ret = Done /\ PrimaryWritten(r) /\ 10 < ttlInSeconds
          /\ m.status = "done" /\ queryKey \in m.value /\ Cardinality(m.value) > 1
          /\ GetResult(s1, queryKey) = Hit(Utf8Decode(Utf8Encode(data)))
          /\ GetResult(s2, queryKey) = Miss
          /\ s2[DependencyKey(name)] = NoKey

(***************************************************************************)
(* C5: a set with several dependency names that completes makes the key a  *)
(* member of the record of every name, and right afterwards an invalidate  *)
(* of any one of the names completes and makes get return the miss value.  *)
(***************************************************************************)
C5_EveryNameRegistered ==
    [][\A queryKey \in QueryKeys, data \in Payloads,
          dependencies \in {l \in DependencyLists : Len(l) > 1}, ttlInSeconds \in TtlArgs :
          (set(queryKey, data, dependencies, ttlInSeconds)
           /\ SetResult(store, queryKey, data, dependencies, ttlInSeconds).ret = Done) =>
             \A d \in Names(dependencies) :
                LET m == MembersResult(store', DependencyKey(d))
                IN /\ queryKey \in Members(store', d)
                   /\ m.status = "done"
                   /\ GetResult(InvalidateResult(store', DependencyKey(d), SeqOf(m.value)),
                                queryKey) = Miss
      ]_vars

(***************************************************************************)
(* C6: invalidate(a) changes only the members of dependency:a and that     *)
(* record. Take an invalidate(a) about to send its deletions. Every other  *)
(* dependency record is the same after them. And a cache entry that a set  *)
(* naming only other dependencies has just created under a key the record  *)
(* of a does not list has the same value and TTL after them.               *)
(***************************************************************************)
C6_InvalidateFrame ==
    \A t \in Tasks : inv[t].pc = "delete" =>
       LET a == inv[t].dependency
           queries == SeqOf(inv[t].queriesToInvalidate)
       IN /\ \A d \in Dependencies \ {a} :
                store[DependencyKey(d)].type = "set" =>
                   InvalidateResult(store, DependencyKey(a), queries)[DependencyKey(d)]
                      = store[DependencyKey(d)]
          /\ \A k \in QueryKeys \ {DependencyKey(a)}, data \in Payloads,
                dependencies \in {l \in DependencyLists : a \notin Names(l)},
                ttlInSeconds \in WholeTtls :
                LET r == SetResult(store, k, data, dependencies, ttlInSeconds)
                IN (store[k] = NoKey /\ r.ret = Done /\ PrimaryWritten(r)
                    /\ k \notin Members(r.store, a)) =>
                      InvalidateResult(r.store, DependencyKey(a), queries)[k] = r.store[k]

(***************************************************************************)
(* C7: the batch of a set with dependencies is all-or-nothing. If the      *)
(* backend rejected one of its commands, the key space is as before.       *)
(***************************************************************************)
C7_BatchAllOrNothing ==
    [][\A queryKey \in QueryKeys, data \in Payloads,
          dependencies \in DependencyLists \ {<< >>}, ttlInSeconds \in TtlArgs :
          set(queryKey, data, dependencies, ttlInSeconds) =>
             LET r == SetResult(store, queryKey, data, dependencies, ttlInSeconds)
             IN SomeError(r.replies) => store' = store
      ]_vars

(***************************************************************************)
(* C8: every backend failure is reported. A set one of whose commands the  *)
(* backend rejected ends in an error. (The commands of invalidate's batch  *)
(* are deletions, which the backend rejects for no key.)                   *)
(***************************************************************************)
C8_FailuresReported ==
    [][\A queryKey \in QueryKeys, data \in Payloads,
          dependencies \in DependencyLists, ttlInSeconds \in TtlArgs :
          set(queryKey, data, dependencies, ttlInSeconds) =>
             LET r == SetResult(store, queryKey, data, dependencies, ttlInSeconds)
             IN SomeError(r.replies) => r.ret.status = "thrown"
      ]_vars

(***************************************************************************)
(* C9: round trip. A get of the key right after a set of it has completed  *)
(* returns the payload given to the set.                                   *)
(***************************************************************************)
C9_RoundTrip ==
    [][\A queryKey \in QueryKeys, data \in Payloads,
          dependencies \in DependencyLists, ttlInSeconds \in TtlArgs :
          (set(queryKey, data, dependencies, ttlInSeconds)
           /\ SetResult(store, queryKey, data, dependencies, ttlInSeconds).ret = Done) =>
             GetResult(store', queryKey) = Hit(data)
      ]_vars

(***************************************************************************)
(* C10: get returns the miss value, and no error, for a key no set has     *)
(* written, and for a key more than ttl seconds after the last set of it   *)
(* completed.                                                              *)
(***************************************************************************)
C10_MissWhenUnwrittenOrElapsed ==
    [][/\ \A queryKey \in QueryKeys \ written' : GetResult(store', queryKey) = Miss
       /\ \A queryKey \in QueryKeys, data \in Payloads,
             dependencies \in DependencyLists, ttlInSeconds \in TtlArgs :
             (set(queryKey, data, dependencies, ttlInSeconds)
              /\ SetResult(store, queryKey, data, dependencies, ttlInSeconds).ret = Done) =>
                GetResult(After(store', (ttlInSeconds \div 10) + 1), queryKey) = Miss
      ]_vars

(***************************************************************************)
(* C11, as stated: with compression enabled, a set whose payload is longer *)
(* than maxEntrySize bytes fails with an error, leaves the key space       *)
(* unchanged, and a following get of the key returns no payload.           *)
(***************************************************************************)
C11_TooLargeThenAbsent ==
    \A queryKey \in QueryKeys, data \in Payloads,
       dependencies \in DependencyLists, ttlInSeconds \in TtlArgs :
       LET r == SetResult(store, queryKey, data, dependencies, ttlInSeconds)
       IN (compression /\ Len(Utf8Encode(data)) > maxEntrySize) =>
             /\ r.ret = Thrown("maxEntrySize exceeded")
             /\ r.store = store
             /\ GetResult(r.store, queryKey).status # "hit"

(***************************************************************************)
(* C11, amended: with compression enabled, a set whose payload is longer   *)
(* than maxEntrySize bytes fails with an error and sends the backend       *)
(* nothing: the key space is unchanged, and a following get of the key     *)
(* returns what a get returned before the set.                             *)
(***************************************************************************)
C11_TooLargeChangesNothing ==
    \A queryKey \in QueryKeys, data \in Payloads,
       dependencies \in DependencyLists, ttlInSeconds \in TtlArgs :
       LET r == SetResult(store, queryKey, data, dependencies, ttlInSeconds)
       IN (compression /\ Len(Utf8Encode(data)) > maxEntrySize) =>
             /\ r.ret = Thrown("maxEntrySize exceeded")
             /\ r.replies = << >>
             /\ r.store = store
             /\ GetResult(r.store, queryKey) = GetResult(store, queryKey)

\* C11's case: compression is on, the key holds an entry and is listed in a
\* record, and a set of it with a payload over the limit throws
C11_Witness ==
    \E queryKey \in QueryKeys, data \in Payloads, d \in Dependencies :
       /\ compression /\ Len(Utf8Encode(data)) > maxEntrySize
       /\ store[queryKey].type = "string"
       /\ queryKey \in Members(store, d)
       /\ SetResult(store, queryKey, data, <<d>>, 10 * MaxTtl).ret.status = "thrown"
       /\ GetResult(store, queryKey).status = "hit"

(***************************************************************************)
(* C12: the entry size limit holds in every configuration. With            *)
(* compression on or off, a set (here with a ttl of whole seconds) whose   *)
(* payload is longer than maxEntrySize bytes fails with the size error and *)
(* changes nothing in the backend.                                         *)
(***************************************************************************)
C12_LimitInEveryConfiguration ==
    [][\A queryKey \in QueryKeys, data \in Payloads,
          dependencies \in DependencyLists, ttlInSeconds \in WholeTtls :
          (set(queryKey, data, dependencies, ttlInSeconds)
           /\ Len(Utf8Encode(data)) > maxEntrySize) =>
             /\ SetResult(store, queryKey, data, dependencies, ttlInSeconds).ret
                   = Thrown("maxEntrySize exceeded")
             /\ store' = store
      ]_vars

(***************************************************************************)
(* C13: invalidate is idempotent.                                          *)
(*  - A name under whose key the backend holds nothing (never used, or     *)
(*    already invalidated), and which the set just made does not name:     *)
(*    invalidate of it completes without error and changes nothing.        *)
(*  - Right after an invalidate has completed, a second invalidate of the  *)
(*    same name completes without error and changes nothing.               *)
(*  - In every state, invalidate twice in a row gives what once gives.     *)
(***************************************************************************)
C13_InvalidateIdempotent ==
    [][/\ \A name \in Dependencies :
          \A queryKey \in QueryKeys, data \in Payloads,
             dependencies \in {l \in DependencyLists : name \notin Names(l)},
             ttlInSeconds \in TtlArgs :
             (store[DependencyKey(name)] = NoKey
              /\ set(queryKey, data, dependencies, ttlInSeconds)) =>
                Invalidate(store', name) = [store |-> store', ret |-> Done]
       /\ \A t \in Tasks :
             InvalidateDelete(t) =>
                Invalidate(store', inv[t].dependency) = [store |-> store', ret |-> Done]
       /\ \A name \in Dependencies :
             LET once == Invalidate(store', name)
             IN once.ret = Done =>
                   Invalidate(once.store, name) = [store |-> once.store, ret |-> Done]
      ]_vars

(***************************************************************************)
(* C14: last write wins. Two set calls on one key reach the backend one    *)
(* after the other, the first in the step taken, the second right after    *)
(* it. Once both have completed, the key holds the value and TTL given by  *)
(* one of the two calls, by the second if the backend applied its write,   *)
(* and a get returns the payload of one of the two calls.                  *)
(***************************************************************************)
C14_LastWriteWins ==
    [][\A queryKey \in QueryKeys, data1 \in Payloads, data2 \in Payloads,
          dependencies1 \in DependencyLists, dependencies2 \in DependencyLists,
          ttl1 \in TtlArgs, ttl2 \in TtlArgs :
          LET r1 == SetResult(store, queryKey, data1, dependencies1, ttl1)
              r2 == SetResult(store', queryKey, data2, dependencies2, ttl2)
              entry1 == StringEntry(Encode(data1), ttl1)
              entry2 == StringEntry(Encode(data2), ttl2)
          IN (set(queryKey, data1, dependencies1, ttl1)
              /\ r1.ret = Done /\ r2.ret = Done) =>
                /\ r2.store[queryKey] \in {entry1, entry2}
                /\ PrimaryWritten(r2) => r2.store[queryKey] = entry2
                /\ GetResult(r2.store, queryKey) \in {Hit(data1), Hit(data2)}
      ]_vars

(***************************************************************************)
(* C15: on every key space the program reaches, when a set with            *)
(* dependencies commits (the backend has accepted its                      *)
(* write of the key), its batch is the write of the key with expiry ttl,   *)
(* then for each name in list order the add of the key to the name's       *)
(* record and the expiry of that record set to ttl; and right after it     *)
(* every named record has exactly ttl left, whatever it had before.        *)
(***************************************************************************)
C15_BatchOrderAndRecordTtl ==
    \A queryKey \in QueryKeys, data \in Payloads,
       dependencies \in DependencyLists \ {<< >>}, ttlInSeconds \in TtlArgs :
       LET r == SetResult(store, queryKey, data, dependencies, ttlInSeconds)
           batch == SetPipeline(queryKey, data, dependencies, ttlInSeconds)
       IN PrimaryWritten(r) =>
             /\ Len(batch) = 1 + 2 * Len(dependencies)
             /\ batch[1] = CmdSet(queryKey, Encode(data), ttlInSeconds)
             /\ \A i \in 1..Len(dependencies) :
                   /\ batch[2 * i] = CmdSadd(DependencyKey(dependencies[i]), queryKey)
                   /\ batch[2 * i + 1]
                         = CmdExpire(DependencyKey(dependencies[i]), ttlInSeconds)
             /\ \A d \in Names(dependencies) :
                   /\ r.store[DependencyKey(d)].type # "none"
                   /\ r.store[DependencyKey(d)].ttl = ttlInSeconds

\* C15's case: a record with another time to live than the one passed, or
\* with none, is named by a set of two names that commits
C15_Witness ==
    \E queryKey \in QueryKeys, data \in Payloads, ttlInSeconds \in TtlArgs :
       LET r == SetResult(store, queryKey, data, <<"a", "b">>, ttlInSeconds)
       IN /\ store[DependencyKey("a")].type = "set"
          /\ store[DependencyKey("a")].ttl = Persist
          /\ store[DependencyKey("b")].type = "set"
          /\ store[DependencyKey("b")].ttl > ttlInSeconds
          /\ PrimaryWritten(r)
          /\ r.store[DependencyKey("a")].ttl = ttlInSeconds
          /\ r.store[DependencyKey("b")].ttl = ttlInSeconds

(***************************************************************************)
(* C16: an invalidate that read a non-empty record deletes the keys it     *)
(* read and the record in one step. The step in which its deletions reach  *)
(* the backend leaves none of those keys and no record behind, and changes *)
(* no other key; so no state lies between "all still there" and "all       *)
(* gone".                                                                  *)
(***************************************************************************)
C16_InvalidateDeletesAtOnce ==
    [][\A t \in Tasks :
          (InvalidateDelete(t) /\ inv[t].queriesToInvalidate # {}) =>
             LET targets == inv[t].queriesToInvalidate
                               \cup {DependencyKey(inv[t].dependency)}
             IN /\ \A k \in targets : store'[k] = NoKey
                /\ \A k \in BackendKeys \ targets : store'[k] = store[k]
      ]_vars

\* C16's case: an invalidate has read two keys from a record; both hold
\* entries and the record is there when its deletions are due
C16_Witness ==
    \E t \in Tasks :
       /\ inv[t].pc = "delete"
       /\ Cardinality(inv[t].queriesToInvalidate) = 2
       /\ \A k \in inv[t].queriesToInvalidate : store[k].type = "string"
       /\ store[DependencyKey(inv[t].dependency)].type = "set"
       /\ \A k \in inv[t].queriesToInvalidate :
             InvalidateResult(store, DependencyKey(inv[t].dependency),
                              SeqOf(inv[t].queriesToInvalidate))[k] = NoKey

(***************************************************************************)
(* C17: the state machine of a cache entry. In every step and for every    *)
(* cache key: the entry appears only by a set of the key; it disappears    *)
(* only by the expiry of its TTL or by the deletions of an invalidate that *)
(* read the key from its record; and a set of a present key that completes *)
(* leaves it present with the value and TTL the set was given.             *)
(***************************************************************************)
C17_EntryStateMachine ==
    [][\A k \in QueryKeys :
          /\ (store[k].type # "string" /\ store'[k].type = "string") =>
                \E data \in Payloads, dependencies \in DependencyLists,
                   ttlInSeconds \in TtlArgs : set(k, data, dependencies, ttlInSeconds)
          /\ (store[k].type = "string" /\ store'[k].type # "string") =>
                \/ Tick /\ store[k].ttl <= 10
                \/ \E t \in Tasks :
                      InvalidateDelete(t) /\ k \in inv[t].queriesToInvalidate
          /\ \A data \in Payloads, dependencies \in DependencyLists,
                ttlInSeconds \in TtlArgs :
                (store[k].type = "string"
                 /\ set(k, data, dependencies, ttlInSeconds)
                 /\ SetResult(store, k, data, dependencies, ttlInSeconds).ret = Done) =>
                   store'[k] = StringEntry(Encode(data), ttlInSeconds)
      ]_vars

(***************************************************************************)
(* C18: invalidate deletes only entries that currently depend on the name. *)
(* After every set of a key that the backend accepted and that did not     *)
(* name dependency d, where the record of d holds only keys whose entries  *)
(* the backend accepted, an invalidate(d) that completes leaves the entry  *)
(* of the key as it is.                                                    *)
(***************************************************************************)
C18_InvalidateOnlyCurrentDependents ==
    [][\A queryKey \in QueryKeys, data \in Payloads,
          dependencies \in DependencyLists, ttlInSeconds \in TtlArgs :
          \A d \in Dependencies \ Names(dependencies) :
             (/\ set(queryKey, data, dependencies, ttlInSeconds)
              /\ PrimaryWritten(SetResult(store, queryKey, data, dependencies,
                                          ttlInSeconds))
              /\ Members(store, d) \subseteq written
              /\ Invalidate(store', d).ret = Done) =>
                Invalidate(store', d).store[queryKey] = store'[queryKey]
      ]_vars

(***************************************************************************)
(* C19: cache entries and dependency records do not interfere through the  *)
(* shared key space. A set of any cache key, the keys of the form          *)
(* dependency:<name> included, that does not name the dependency leaves    *)
(* the record of the name as it is; and after it a set(k, v, [name]) of   *)
(* another key k with a whole-second TTL registers k under the name and an *)
(* invalidate(name) then completes and deletes k.                          *)
(***************************************************************************)
C19_KeySpacesDoNotInterfere ==
    [][\A queryKey \in QueryKeys, data \in Payloads,
          dependencies \in DependencyLists, ttlInSeconds \in TtlArgs :
          \A name \in Dependencies \ Names(dependencies) :
             set(queryKey, data, dependencies, ttlInSeconds) =>
                /\ store[DependencyKey(name)].type = "set" =>
                      store'[DependencyKey(name)] = store[DependencyKey(name)]
                /\ \A k \in QueryKeys \ {DependencyKey(name)}, v \in Payloads,
                      ttl \in WholeTtls :
                      LET r == SetResult(store', k, v, <<name>>, ttl)
                          i == Invalidate(r.store, name)
                      IN r.ret = Done =>
                            /\ k \in Members(r.store, name)
                            /\ i.ret = Done
                            /\ i.store[k] = NoKey
      ]_vars

(***************************************************************************)
(* C20: nothing the cache writes is permanent. In every reachable state    *)
(* each cache entry and each dependency record the backend holds carries a *)
(* finite expiry.                                                          *)
(***************************************************************************)
C20_EverythingExpires ==
    \A k \in BackendKeys : store[k].type # "none" => store[k].ttl # Persist

====
